---- MODULE Spec2Model ----
(***************************************************************************)
(* Seat inventory, booking ledger and payment ledger of the AMC MCP server *)
(* (src/src/amc_mcp/fastmcp_server.py: _get_seat_map, _book_seats,         *)
(* _process_payment over the module globals bookings and payments).        *)
(*                                                                         *)
(* Money is counted in cents.  The catalog prices used here are multiples  *)
(* of 0.25, so they and their sums are exact IEEE-754 doubles and the      *)
(* float accumulation total_price += seat_price is exact integer addition  *)
(* of cents.  A tendered amount is a decimal with two places; its double   *)
(* is generally inexact, and AmountMismatch evaluates                      *)
(* abs(amount - total_price) > 0.01 as the doubles do.                     *)
(*                                                                         *)
(* Each handler runs to completion before the next one starts: the tool    *)
(* functions are synchronous and the coroutines of server.py contain no    *)
(* await, so a handler is one atomic action and two concurrent calls are   *)
(* two consecutive actions in either order.                                *)
(*                                                                         *)
(* Booking.created_at (datetime.now()) is written once and never read; it  *)
(* is left out of the booking record.                                      *)
(***************************************************************************)
EXTENDS Integers, Sequences, FiniteSets, TLC

VARIABLES bookings, payments, call, result

vars == <<bookings, payments, call, result>>

----------------------------------------------------------------------------
(* Bounds of the model *)

\* largest number of bookings the ledger is allowed to hold
MaxBookings == 2

----------------------------------------------------------------------------
(* Program constants *)

\* seat_data.get("price", 15.00), in cents
DefaultPrice == 1500

\* the tolerance 0.01 of abs(amount - booking.total_price) > 0.01, in cents
Tolerance == 1

----------------------------------------------------------------------------
(* Reference catalog: what load_mock_data leaves in the module globals.    *)
(* st001 has two priced seats, st002 reuses the label A5 and omits the     *)
(* price, st003 is a showtime without a seat layout and without a movie.   *)

movies == [mv001 |-> [title |-> "Dune"], mv002 |-> [title |-> "Up"]]

theaters == [th001 |-> [name |-> "AMC Boston"]]

showtimes ==
  [st001 |-> [showtime_id |-> "st001", movie_id |-> "mv001",
              theater_id |-> "th001", date |-> "2025-10-28", time |-> "19:00"],
   st002 |-> [showtime_id |-> "st002", movie_id |-> "mv002",
              theater_id |-> "th001", date |-> "2025-10-28", time |-> "21:30"],
   st003 |-> [showtime_id |-> "st003", movie_id |-> "mv404",
              theater_id |-> "th404", date |-> "2025-10-29", time |-> "10:00"]]

seats_data ==
  [st001 |-> << [seat_number |-> "A5", row |-> "A", column |-> 5,
                 price_tier |-> "Standard", price |-> 1500],
                [seat_number |-> "A6", row |-> "A", column |-> 6,
                 price_tier |-> "Premium", price |-> 1250] >>,
   st002 |-> << [seat_number |-> "A5", row |-> "A", column |-> 5,
                 price_tier |-> "Standard"] >>]

----------------------------------------------------------------------------
(* Arguments the callers send *)

ShowtimeIdArgs == {"", "st001", "st002", "st003", "st999"}

SeatLabels == {"A5", "A6", "Z99"}

\* seat lists of a request: empty, one seat, or two seats (the same seat
\* twice included)
SeatListArgs ==
  {<< >>} \cup {<<a>> : a \in SeatLabels}
          \cup {<<a, b>> : a \in SeatLabels, b \in SeatLabels}

UserIdArgs == {"", "u1"}

PaymentMethodArgs == {"card"}

\* identifiers uuid.uuid4() can return for a booking
IdNames == <<"b1", "b2", "b3", "b4", "b5", "b6">>

BookingIds == {IdNames[i] : i \in 1..MaxBookings}

BookingIdArgs == {""} \cup BookingIds

\* identifiers uuid.uuid4() can return for a payment
PaymentNames == <<"p1", "p2", "p3", "p4", "p5", "p6">>

PaymentIds == {PaymentNames[i] : i \in 1..MaxBookings}

----------------------------------------------------------------------------
(* Helpers *)

Contains(seq, x) == \E i \in DOMAIN seq : seq[i] = x

Abs(x) == IF x < 0 THEN -x ELSE x

Max(S) == CHOOSE x \in S : \A y \in S : y <= x

----------------------------------------------------------------------------
(* IEEE-754 evaluation of abs(amount - booking.total_price) > 0.01 *)

\* floor(log2(c / 100)) for a positive number of cents c
RECURSIVE BinadeUp(_, _)
BinadeUp(c, e) == IF c >= 100 * (2 ^ (e + 1)) THEN BinadeUp(c, e + 1) ELSE e

RECURSIVE BinadeDown(_, _)
BinadeDown(c, e) == IF c * (2 ^ e) < 100 THEN BinadeDown(c, e + 1) ELSE 0 - e

Binade(c) == IF c >= 100 THEN BinadeUp(c, 0) ELSE BinadeDown(c, 0)

\* 2^k modulo 100
RECURSIVE Pow2Mod100(_)
Pow2Mod100(k) == IF k = 0 THEN 1 ELSE (2 * Pow2Mod100(k - 1)) % 100

\* Sign of double(c / 100) - c / 100: the double nearest to c * 2^k / 100
\* ulps, k = 52 - Binade(c), lies below (-1), on (0) or above (1) the decimal.
\* A tie (remainder 50) cannot happen: c * 2^k is a multiple of 4.
RoundingSign(c) ==
  LET r == ((c % 100) * Pow2Mod100(52 - Binade(c))) % 100
  IN  IF r = 0 THEN 0 ELSE IF r < 50 THEN 0 - 1 ELSE 1

\* the comparison as it would be without abs(): amount - total_price > 0.01
AmountMismatch_Signed(amount, total_price) ==
  IF amount - total_price > Tolerance THEN TRUE
  ELSE IF amount - total_price < Tolerance THEN FALSE
  ELSE RoundingSign(amount) > 0

\* abs(amount - total_price) > 0.01 for a two-decimal amount and an exactly
\* representable total.  The subtraction of the two doubles is exact, and
\* double(0.01) exceeds 0.01 by less than one ulp of the difference, so a
\* difference of one cent is decided by the rounding of the amount alone.
AmountMismatch(amount, total_price) ==
  LET d == Abs(amount - total_price)
  IN  IF d > Tolerance THEN TRUE
      ELSE IF d < Tolerance THEN FALSE
      ELSE IF amount > total_price THEN RoundingSign(amount) > 0
      ELSE RoundingSign(amount) < 0

----------------------------------------------------------------------------
(* _get_seat_map *)

\* seats_data.get(showtime_id, [])
ShowtimeSeats(showtime_id) ==
  IF showtime_id \in DOMAIN seats_data THEN seats_data[showtime_id] ELSE << >>

\* the price lookup as it would be if it ignored the catalog entry
SeatPrice_AlwaysDefault(seat_data) == DefaultPrice

\* seat_data.get("price", 15.00)
SeatPrice(seat_data) ==
  IF "price" \in DOMAIN seat_data THEN seat_data.price ELSE DefaultPrice

\* movie.title if movie else "Unknown"
MovieTitle(showtime) ==
  IF showtime.movie_id \in DOMAIN movies
  THEN movies[showtime.movie_id].title ELSE "Unknown"

\* theater.name if theater else "Unknown Theater"
TheaterName(showtime) ==
  IF showtime.theater_id \in DOMAIN theaters
  THEN theaters[showtime.theater_id].name ELSE "Unknown Theater"

\* the test as it would be if a showtime without a seat layout were refused
InvalidShowtime_NoLayout(showtime_id) ==
  \/ showtime_id = ""
  \/ showtime_id \notin DOMAIN showtimes
  \/ showtime_id \notin DOMAIN seats_data

\* not showtime_id or showtime_id not in showtimes
InvalidShowtime(showtime_id) ==
  showtime_id = "" \/ showtime_id \notin DOMAIN showtimes

\* _get_seat_map as it would be without the test of booking.status
SeatMapIsBooked_AnyStatus(showtime_id, seat_number) ==
  \E id \in DOMAIN bookings :
     /\ bookings[id].showtime_id = showtime_id
     /\ Contains(bookings[id].seats, seat_number)

\* the any(...) as it would be over the ledger as it was loaded, which is
\* empty, instead of the ledger at the time of the call
SeatMapIsBooked_AsLoaded(showtime_id, seat_number) ==
  \E id \in DOMAIN << >> :
     /\ bookings[id].showtime_id = showtime_id
     /\ Contains(bookings[id].seats, seat_number)
     /\ bookings[id].status = "confirmed"

\* the any(...) of _get_seat_map over the bookings of the showtime
SeatMapIsBooked(showtime_id, seat_number) ==
  \E id \in DOMAIN bookings :
     /\ bookings[id].showtime_id = showtime_id
     /\ Contains(bookings[id].seats, seat_number)
     /\ bookings[id].status = "confirmed"

\* the seat_map list as it would be if the loop skipped the booked seats
SeatMap_AvailableOnly(showtime_id) ==
  LET seats == ShowtimeSeats(showtime_id)
      IsAvailable(seat_data) == ~SeatMapIsBooked(showtime_id, seat_data.seat_number)
      available == SelectSeq(seats, IsAvailable)
  IN  [i \in DOMAIN available |->
         [seat_number  |-> available[i].seat_number,
          row          |-> available[i].row,
          column       |-> available[i].column,
          is_available |-> TRUE,
          price_tier   |-> available[i].price_tier,
          price        |-> SeatPrice(available[i])]]

\* the seat_map list built by the loop over the layout
SeatMap(showtime_id) ==
  LET seats == ShowtimeSeats(showtime_id)
  IN  [i \in DOMAIN seats |->
         [seat_number  |-> seats[i].seat_number,
          row          |-> seats[i].row,
          column       |-> seats[i].column,
          is_available |-> ~SeatMapIsBooked(showtime_id, seats[i].seat_number),
          price_tier   |-> seats[i].price_tier,
          price        |-> SeatPrice(seats[i])]]

GetSeatMapResult(showtime_id) ==
  IF InvalidShowtime(showtime_id)
  THEN [error |-> "Invalid showtime ID"]
  ELSE [showtime_id |-> showtime_id,
        movie       |-> MovieTitle(showtimes[showtime_id]),
        theater     |-> TheaterName(showtimes[showtime_id]),
        date        |-> showtimes[showtime_id].date,
        time        |-> showtimes[showtime_id].time,
        seat_map    |-> SeatMap(showtime_id)]

GetSeatMap(showtime_id) ==
  /\ call' = [op |-> "get_seat_map", showtime_id |-> showtime_id]
  /\ result' = GetSeatMapResult(showtime_id)
  /\ UNCHANGED <<bookings, payments>>

----------------------------------------------------------------------------
(* _book_seats *)

\* seat_lookup = {s["seat_number"]: s for s in showtime_seats}: a later
\* layout entry with the same seat_number replaces an earlier one
SeatLookup(showtime_id) ==
  LET seats == ShowtimeSeats(showtime_id)
  IN  [n \in {seats[i].seat_number : i \in DOMAIN seats} |->
         seats[Max({i \in DOMAIN seats : seats[i].seat_number = n})]]

\* the any(...) as it would be without the test of the booking's showtime
IsBooked_AnyShowtime(showtime_id, seat_num) ==
  \E id \in DOMAIN bookings :
     /\ Contains(bookings[id].seats, seat_num)
     /\ bookings[id].status = "confirmed"

\* the any(...) as it would be without the test of the booking's status
IsBooked_AnyStatus(showtime_id, seat_num) ==
  \E id \in DOMAIN bookings :
     /\ bookings[id].showtime_id = showtime_id
     /\ Contains(bookings[id].seats, seat_num)

\* the any(...) as it would be if it compared the seat with the whole seat
\* list of a booking instead of looking for it in the list
IsBooked_WholeList(showtime_id, seat_num) ==
  \E id \in DOMAIN bookings :
     /\ bookings[id].showtime_id = showtime_id
     /\ bookings[id].seats = <<seat_num>>
     /\ bookings[id].status = "confirmed"

\* the any(...) of _book_seats over the bookings of the showtime
IsBooked(showtime_id, seat_num) ==
  \E id \in DOMAIN bookings :
     /\ bookings[id].showtime_id = showtime_id
     /\ Contains(bookings[id].seats, seat_num)
     /\ bookings[id].status = "confirmed"

\* the validation loop as it would be if it stopped after the first seat
UnavailableSeats_FirstOnly(showtime_id, seats) ==
  IF seats = << >> THEN << >>
  ELSE IF Head(seats) \notin DOMAIN SeatLookup(showtime_id)
  THEN <<[seat_num |-> Head(seats), reason |-> "doesn't exist"]>>
  ELSE IF IsBooked(showtime_id, Head(seats))
  THEN <<[seat_num |-> Head(seats), reason |-> "already booked"]>>
  ELSE << >>

\* unavailable_seats after the loop over the requested seats, in request
\* order: f"{seat_num} (doesn't exist)" or f"{seat_num} (already booked)"
RECURSIVE UnavailableSeats(_, _)
UnavailableSeats(showtime_id, seats) ==
  IF seats = << >> THEN << >>
  ELSE LET seat_num == Head(seats)
           rest     == UnavailableSeats(showtime_id, Tail(seats))
       IN  IF seat_num \notin DOMAIN SeatLookup(showtime_id)
           THEN <<[seat_num |-> seat_num, reason |-> "doesn't exist"]>> \o rest
           ELSE IF IsBooked(showtime_id, seat_num)
           THEN <<[seat_num |-> seat_num, reason |-> "already booked"]>> \o rest
           ELSE rest

\* the sum as it would be if a seat that the request names again were
\* charged once
RECURSIVE TotalPrice_OncePerSeat(_, _)
TotalPrice_OncePerSeat(showtime_id, seats) ==
  IF seats = << >> THEN 0
  ELSE LET seat_num == Head(seats)
           rest     == TotalPrice_OncePerSeat(showtime_id, Tail(seats))
       IN  IF seat_num \notin DOMAIN SeatLookup(showtime_id) THEN rest
           ELSE IF IsBooked(showtime_id, seat_num) THEN rest
           ELSE IF Contains(Tail(seats), seat_num) THEN rest
           ELSE SeatPrice(SeatLookup(showtime_id)[seat_num]) + rest

\* total_price after the loop: the prices of the requested seats that exist
\* and are not booked, one addend per occurrence
RECURSIVE TotalPrice(_, _)
TotalPrice(showtime_id, seats) ==
  IF seats = << >> THEN 0
  ELSE LET seat_num == Head(seats)
           rest     == TotalPrice(showtime_id, Tail(seats))
       IN  IF seat_num \notin DOMAIN SeatLookup(showtime_id) THEN rest
           ELSE IF IsBooked(showtime_id, seat_num) THEN rest
           ELSE SeatPrice(SeatLookup(showtime_id)[seat_num]) + rest

\* not seats or not user_id
MissingArguments(seats, user_id) == seats = << >> \/ user_id = ""

\* Booking(booking_id=..., status="pending", total_price=total_price, ...)
NewBooking(booking_id, showtime_id, seats, user_id) ==
  [booking_id  |-> booking_id,
   showtime_id |-> showtime_id,
   seats       |-> seats,
   user_id     |-> user_id,
   status      |-> "pending",
   total_price |-> TotalPrice(showtime_id, seats)]

\* the payload of a successful book_seats
BookSeatsResult(booking_id, showtime_id, seats) ==
  [booking_id  |-> booking_id,
   status      |-> "pending",
   movie       |-> MovieTitle(showtimes[showtime_id]),
   theater     |-> TheaterName(showtimes[showtime_id]),
   date        |-> showtimes[showtime_id].date,
   time        |-> showtimes[showtime_id].time,
   seats       |-> seats,
   total_price |-> TotalPrice(showtime_id, seats)]

\* the identifier as it would be if every booking were given the same one
FreshBookingIds_Same == {IdNames[1]}

\* booking_id = str(uuid.uuid4()): an identifier no booking has yet.
\* Identifiers are only compared for equality, so which new one it is does
\* not matter: the names are handed out in order, while there are any.
FreshBookingIds ==
  IF Cardinality(DOMAIN bookings) < Cardinality(BookingIds)
  THEN {IdNames[Cardinality(DOMAIN bookings) + 1]} \ DOMAIN bookings
  ELSE {}

\* _book_seats as it would be if the seats and the user id were tested
\* before the showtime is looked up
BookSeats_ArgumentsFirst(showtime_id, seats, user_id) ==
  /\ call' = [op |-> "book_seats", showtime_id |-> showtime_id,
              seats |-> seats, user_id |-> user_id]
  /\ IF MissingArguments(seats, user_id)
     THEN /\ result' = [error |-> "Seats and user_id are required"]
          /\ UNCHANGED <<bookings, payments>>
     ELSE IF InvalidShowtime(showtime_id)
     THEN /\ result' = [error |-> "Invalid showtime ID"]
          /\ UNCHANGED <<bookings, payments>>
     ELSE IF UnavailableSeats(showtime_id, seats) # << >>
     THEN /\ result' = [error |-> "Unavailable seats",
                        unavailable_seats |->
                          UnavailableSeats(showtime_id, seats)]
          /\ UNCHANGED <<bookings, payments>>
     ELSE \E booking_id \in FreshBookingIds :
          /\ bookings' =
               (booking_id :> NewBooking(booking_id, showtime_id, seats, user_id))
                 @@ bookings
          /\ result' = BookSeatsResult(booking_id, showtime_id, seats)
          /\ UNCHANGED payments


BookSeats(showtime_id, seats, user_id) ==
  /\ call' = [op |-> "book_seats", showtime_id |-> showtime_id,
              seats |-> seats, user_id |-> user_id]
  /\ IF InvalidShowtime(showtime_id)
     THEN /\ result' = [error |-> "Invalid showtime ID"]
          /\ UNCHANGED <<bookings, payments>>
     ELSE IF MissingArguments(seats, user_id)
     THEN /\ result' = [error |-> "Seats and user_id are required"]
          /\ UNCHANGED <<bookings, payments>>
     ELSE IF UnavailableSeats(showtime_id, seats) # << >>
     THEN /\ result' = [error |-> "Unavailable seats",
                        unavailable_seats |->
                          UnavailableSeats(showtime_id, seats)]
          /\ UNCHANGED <<bookings, payments>>
     ELSE \E booking_id \in FreshBookingIds :
          /\ bookings' =
               (booking_id :> NewBooking(booking_id, showtime_id, seats, user_id))
                 @@ bookings
          /\ result' = BookSeatsResult(booking_id, showtime_id, seats)
          /\ UNCHANGED payments

----------------------------------------------------------------------------
(* _process_payment *)

\* not booking_id or booking_id not in bookings
InvalidBooking(booking_id) ==
  booking_id = "" \/ booking_id \notin DOMAIN bookings

\* _process_payment as it would be without the test of booking.status
NotPending_Never(booking) == FALSE

\* booking.status != "pending"
NotPending(booking) == booking.status # "pending"

\* Payment(payment_id=..., status="success", receipt_url=...)
NewPayment(payment_id, booking_id, payment_method, amount) ==
  [payment_id     |-> payment_id,
   booking_id     |-> booking_id,
   amount         |-> amount,
   payment_method |-> payment_method,
   status         |-> "success",
   receipt_url    |-> <<"https://amc.com/receipts/", payment_id>>]

\* the status update as it would be if it also cancelled the pending
\* bookings of the same showtime that list one of the paid seats
MarkConfirmed_CancelsRivals(booking_id) ==
  [id \in DOMAIN bookings |->
     IF id = booking_id
     THEN [bookings[id] EXCEPT !.status = "confirmed"]
     ELSE IF /\ bookings[id].status = "pending"
             /\ bookings[id].showtime_id = bookings[booking_id].showtime_id
             /\ \E i \in DOMAIN bookings[id].seats :
                   Contains(bookings[booking_id].seats, bookings[id].seats[i])
     THEN [bookings[id] EXCEPT !.status = "cancelled"]
     ELSE bookings[id]]

\* the status update as it would be if it were left out
MarkConfirmed_Forgotten(booking_id) == bookings

\* the status update as it would be if it also released the seat list
MarkConfirmed_ClearsSeats(booking_id) ==
  [bookings EXCEPT ![booking_id].status = "confirmed",
                   ![booking_id].seats = << >>]

\* booking.status = "confirmed"
MarkConfirmed(booking_id) ==
  [bookings EXCEPT ![booking_id].status = "confirmed"]

\* the payload of a successful process_payment
ProcessPaymentResult(payment_id, booking_id, amount) ==
  LET booking  == bookings[booking_id]
      showtime == showtimes[booking.showtime_id]
  IN  [payment_id     |-> payment_id,
       payment_status |-> "success",
       booking_id     |-> booking_id,
       receipt_url    |-> <<"https://amc.com/receipts/", payment_id>>,
       confirmation   |-> [movie      |-> MovieTitle(showtime),
                           theater    |-> TheaterName(showtime),
                           date       |-> showtime.date,
                           time       |-> showtime.time,
                           seats      |-> booking.seats,
                           total_paid |-> amount]]

\* the identifier as it would be if every payment were given the same one
FreshPaymentIds_Same == {PaymentNames[1]}

\* payment_id = str(uuid.uuid4()): an identifier no payment has yet, the
\* names handed out in order as for the bookings
FreshPaymentIds ==
  IF Cardinality(DOMAIN payments) < Cardinality(PaymentIds)
  THEN {PaymentNames[Cardinality(DOMAIN payments) + 1]} \ DOMAIN payments
  ELSE {}

\* _process_payment as it would be if it looked, before it records the
\* payment, whether a seat of the booking has been confirmed for another
ProcessPayment_RevalidatesSeats(booking_id, payment_method, amount) ==
  /\ call' = [op |-> "process_payment", booking_id |-> booking_id,
              payment_method |-> payment_method, amount |-> amount]
  /\ IF InvalidBooking(booking_id)
     THEN /\ result' = [error |-> "Invalid booking ID"]
          /\ UNCHANGED <<bookings, payments>>
     ELSE IF NotPending(bookings[booking_id])
     THEN /\ result' = [error |-> "Booking status", status |->
                          bookings[booking_id].status]
          /\ UNCHANGED <<bookings, payments>>
     ELSE IF AmountMismatch(amount, bookings[booking_id].total_price)
     THEN /\ result' = [error |-> "Amount mismatch",
                        expected |-> bookings[booking_id].total_price,
                        got |-> amount]
          /\ UNCHANGED <<bookings, payments>>
     ELSE IF UnavailableSeats(bookings[booking_id].showtime_id,
                              bookings[booking_id].seats) # << >>
     THEN /\ result' = [error |-> "Unavailable seats",
                        unavailable_seats |->
                          UnavailableSeats(bookings[booking_id].showtime_id,
                                           bookings[booking_id].seats)]
          /\ UNCHANGED <<bookings, payments>>
     ELSE \E payment_id \in FreshPaymentIds :
          /\ payments' =
               (payment_id :>
                  NewPayment(payment_id, booking_id, payment_method, amount))
                 @@ payments
          /\ bookings' = MarkConfirmed(booking_id)
          /\ result' = ProcessPaymentResult(payment_id, booking_id, amount)

\* _process_payment as it would be if a wrong amount cancelled the booking
ProcessPayment_MismatchCancels(booking_id, payment_method, amount) ==
  /\ call' = [op |-> "process_payment", booking_id |-> booking_id,
              payment_method |-> payment_method, amount |-> amount]
  /\ IF InvalidBooking(booking_id)
     THEN /\ result' = [error |-> "Invalid booking ID"]
          /\ UNCHANGED <<bookings, payments>>
     ELSE IF NotPending(bookings[booking_id])
     THEN /\ result' = [error |-> "Booking status", status |->
                          bookings[booking_id].status]
          /\ UNCHANGED <<bookings, payments>>
     ELSE IF AmountMismatch(amount, bookings[booking_id].total_price)
     THEN /\ result' = [error |-> "Amount mismatch",
                        expected |-> bookings[booking_id].total_price,
                        got |-> amount]
          /\ bookings' = [bookings EXCEPT ![booking_id].status = "cancelled"]
          /\ UNCHANGED payments
     ELSE \E payment_id \in FreshPaymentIds :
          /\ payments' =
               (payment_id :>
                  NewPayment(payment_id, booking_id, payment_method, amount))
                 @@ payments
          /\ bookings' = MarkConfirmed(booking_id)
          /\ result' = ProcessPaymentResult(payment_id, booking_id, amount)

\* _process_payment as it would be if the amount were compared before the
\* status of the booking is tested
ProcessPayment_AmountFirst(booking_id, payment_method, amount) ==
  /\ call' = [op |-> "process_payment", booking_id |-> booking_id,
              payment_method |-> payment_method, amount |-> amount]
  /\ IF InvalidBooking(booking_id)
     THEN /\ result' = [error |-> "Invalid booking ID"]
          /\ UNCHANGED <<bookings, payments>>
     ELSE IF AmountMismatch(amount, bookings[booking_id].total_price)
     THEN /\ result' = [error |-> "Amount mismatch",
                        expected |-> bookings[booking_id].total_price,
                        got |-> amount]
          /\ UNCHANGED <<bookings, payments>>
     ELSE IF NotPending(bookings[booking_id])
     THEN /\ result' = [error |-> "Booking status", status |->
                          bookings[booking_id].status]
          /\ UNCHANGED <<bookings, payments>>
     ELSE \E payment_id \in FreshPaymentIds :
          /\ payments' =
               (payment_id :>
                  NewPayment(payment_id, booking_id, payment_method, amount))
                 @@ payments
          /\ bookings' = MarkConfirmed(booking_id)
          /\ result' = ProcessPaymentResult(payment_id, booking_id, amount)

\* _process_payment as it would be if the Payment were stored before the
\* amount is compared
ProcessPayment_RecordFirst(booking_id, payment_method, amount) ==
  /\ call' = [op |-> "process_payment", booking_id |-> booking_id,
              payment_method |-> payment_method, amount |-> amount]
  /\ IF InvalidBooking(booking_id)
     THEN /\ result' = [error |-> "Invalid booking ID"]
          /\ UNCHANGED <<bookings, payments>>
     ELSE IF NotPending(bookings[booking_id])
     THEN /\ result' = [error |-> "Booking status", status |->
                          bookings[booking_id].status]
          /\ UNCHANGED <<bookings, payments>>
     ELSE \E payment_id \in FreshPaymentIds :
          /\ payments' =
               (payment_id :>
                  NewPayment(payment_id, booking_id, payment_method, amount))
                 @@ payments
          /\ IF AmountMismatch(amount, bookings[booking_id].total_price)
             THEN /\ result' = [error |-> "Amount mismatch",
                                expected |-> bookings[booking_id].total_price,
                                got |-> amount]
                  /\ UNCHANGED bookings
             ELSE /\ bookings' = MarkConfirmed(booking_id)
                  /\ result' =
                       ProcessPaymentResult(payment_id, booking_id, amount)

ProcessPayment(booking_id, payment_method, amount) ==
  /\ call' = [op |-> "process_payment", booking_id |-> booking_id,
              payment_method |-> payment_method, amount |-> amount]
  /\ IF InvalidBooking(booking_id)
     THEN /\ result' = [error |-> "Invalid booking ID"]
          /\ UNCHANGED <<bookings, payments>>
     ELSE IF NotPending(bookings[booking_id])
     THEN /\ result' = [error |-> "Booking status", status |->
                          bookings[booking_id].status]
          /\ UNCHANGED <<bookings, payments>>
     ELSE IF AmountMismatch(amount, bookings[booking_id].total_price)
     THEN /\ result' = [error |-> "Amount mismatch",
                        expected |-> bookings[booking_id].total_price,
                        got |-> amount]
          /\ UNCHANGED <<bookings, payments>>
     ELSE \E payment_id \in FreshPaymentIds :
          /\ payments' =
               (payment_id :>
                  NewPayment(payment_id, booking_id, payment_method, amount))
                 @@ payments
          /\ bookings' = MarkConfirmed(booking_id)
          /\ result' = ProcessPaymentResult(payment_id, booking_id, amount)

----------------------------------------------------------------------------
(* The server *)

\* amounts tendered for a booking: its total price, one cent and two cents
\* off either way (the default price stands in for an unknown booking)
AmountArgs(booking_id) ==
  LET total_price == IF booking_id \in DOMAIN bookings
                     THEN bookings[booking_id].total_price
                     ELSE DefaultPrice
  IN  {total_price - 2, total_price - 1, total_price,
       total_price + 1, total_price + 2}

\* bookings and payments are empty dicts when the module is loaded
Init ==
  /\ bookings = << >>
  /\ payments = << >>
  /\ call = [op |-> "none"]
  /\ result = [none |-> TRUE]

\* the server is waiting for a request: no response is being returned
Idle == call.op = "none"

\* a get_seat_map request is served
ServeGetSeatMap ==
  /\ Idle
  /\ \E showtime_id \in ShowtimeIdArgs : GetSeatMap(showtime_id)

\* a book_seats request is served
ServeBookSeats ==
  /\ Idle
  /\ \E showtime_id \in ShowtimeIdArgs, seats \in SeatListArgs,
        user_id \in UserIdArgs : BookSeats(showtime_id, seats, user_id)

\* a process_payment request is served
ServeProcessPayment ==
  /\ Idle
  /\ \E booking_id \in BookingIdArgs, payment_method \in PaymentMethodArgs :
        \E amount \in AmountArgs(booking_id) :
           ProcessPayment(booking_id, payment_method, amount)

\* the payload has been returned to the caller
Respond ==
  /\ ~Idle
  /\ call' = [op |-> "none"]
  /\ result' = [none |-> TRUE]
  /\ UNCHANGED <<bookings, payments>>

\* requests arrive one at a time
Next ==
  \/ ServeGetSeatMap
  \/ ServeBookSeats
  \/ ServeProcessPayment
  \/ Respond

Spec == Init /\ [][Next]_vars

----------------------------------------------------------------------------
(* Overlapping calls.  call and result hold the payload that is being      *)
(* returned; a handler that runs while they are still set serves a request *)
(* that was made before the earlier call returned, so the two calls are    *)
(* concurrent.  Well-formed requests only.                                 *)

OverlappingBookSeats ==
  \E showtime_id \in DOMAIN seats_data, seats \in SeatListArgs \ {<< >>},
     user_id \in UserIdArgs \ {""} : BookSeats(showtime_id, seats, user_id)

OverlappingProcessPayment ==
  \E booking_id \in BookingIds, payment_method \in PaymentMethodArgs :
     \E amount \in AmountArgs(booking_id) :
        ProcessPayment(booking_id, payment_method, amount)

ConcurrentNext ==
  \/ OverlappingBookSeats
  \/ OverlappingProcessPayment
  \/ Respond

ConcurrentSpec == Init /\ [][ConcurrentNext]_vars

----------------------------------------------------------------------------
(* Several users.  One showtime, seat lists of its two seats, two user ids *)
(* and payments of the exact total: the requests by which one user's       *)
(* booking can meet another's.                                             *)

SeveralUserIdArgs == {"u1", "u2"}

SeveralUsersSeatListArgs ==
  {<<"A5">>, <<"A6">>, <<"A5", "A6">>, <<"A6", "A5">>}

SeveralUsersBookSeats ==
  /\ Idle
  /\ \E seats \in SeveralUsersSeatListArgs, user_id \in SeveralUserIdArgs :
        BookSeats("st001", seats, user_id)

SeveralUsersProcessPayment ==
  /\ Idle
  /\ \E booking_id \in DOMAIN bookings, payment_method \in PaymentMethodArgs :
        ProcessPayment(booking_id, payment_method,
                       bookings[booking_id].total_price)

SeveralUsersNext ==
  \/ SeveralUsersBookSeats
  \/ SeveralUsersProcessPayment
  \/ Respond

SeveralUsersSpec == Init /\ [][SeveralUsersNext]_vars

----------------------------------------------------------------------------
(* A client that retries.  Bookings of one showtime are paid with any      *)
(* amount near the total; a client whose payment was refused for its       *)
(* amount offers the exact total again, and does not give up: the exact    *)
(* payment of a pending booking is taken again and again while it is       *)
(* possible, and every call returns.                                       *)

RetryBookSeats ==
  /\ Idle
  /\ \E seats \in SeveralUsersSeatListArgs, user_id \in UserIdArgs \ {""} :
        BookSeats("st001", seats, user_id)

RetryAnyAmount ==
  /\ Idle
  /\ \E booking_id \in DOMAIN bookings, payment_method \in PaymentMethodArgs :
        \E amount \in AmountArgs(booking_id) \ {bookings[booking_id].total_price} :
           ProcessPayment(booking_id, payment_method, amount)

RetryExactAmount(booking_id) ==
  /\ Idle
  /\ booking_id \in DOMAIN bookings
  /\ bookings[booking_id].status = "pending"
  /\ \E payment_method \in PaymentMethodArgs :
        ProcessPayment(booking_id, payment_method,
                       bookings[booking_id].total_price)

RetryNext ==
  \/ RetryBookSeats
  \/ RetryAnyAmount
  \/ \E booking_id \in BookingIds : RetryExactAmount(booking_id)
  \/ Respond

RetrySpec ==
  /\ Init
  /\ [][RetryNext]_vars
  /\ WF_vars(Respond)
  /\ \A booking_id \in BookingIds : SF_vars(RetryExactAmount(booking_id))

----------------------------------------------------------------------------
(* Two showtimes.  Calls on the showtimes that have a layout, st001 and    *)
(* st002, whose layouts both have a seat A5, with payments of the exact    *)
(* total.                                                                  *)

ShowtimesSeatListArgs == {<<"A5">>, <<"A6">>, <<"A5", "A6">>}

ShowtimesGetSeatMap ==
  /\ Idle
  /\ \E showtime_id \in DOMAIN seats_data : GetSeatMap(showtime_id)

ShowtimesBookSeats ==
  /\ Idle
  /\ \E showtime_id \in DOMAIN seats_data, seats \in ShowtimesSeatListArgs,
        user_id \in UserIdArgs \ {""} : BookSeats(showtime_id, seats, user_id)

ShowtimesProcessPayment ==
  /\ Idle
  /\ \E booking_id \in DOMAIN bookings, payment_method \in PaymentMethodArgs :
        ProcessPayment(booking_id, payment_method,
                       bookings[booking_id].total_price)

ShowtimesNext ==
  \/ ShowtimesGetSeatMap
  \/ ShowtimesBookSeats
  \/ ShowtimesProcessPayment
  \/ Respond

ShowtimesSpec == Init /\ [][ShowtimesNext]_vars

----------------------------------------------------------------------------
(* The class AMCMCPServer of server.py.  Its three handlers are written    *)
(* out from its own text, without the operators of the functions of        *)
(* fastmcp_server.py above; bookings and payments stand for self.bookings  *)
(* and self.payments, args for the dictionary of the request.  A request   *)
(* is served by either implementation.                                     *)

\* the loop of AMCMCPServer._book_seats over seats[i..], carrying the list
\* of unavailable seats and the total price
RECURSIVE AMCMCPServerSeatLoop(_, _, _, _, _)
AMCMCPServerSeatLoop(showtime_id, seats, i, unavailable_seats, total_price) ==
  IF i > Len(seats)
  THEN [unavailable_seats |-> unavailable_seats, total_price |-> total_price]
  ELSE
    LET showtime_seats ==
          IF showtime_id \in DOMAIN seats_data
          THEN seats_data[showtime_id] ELSE << >>
        seat_num == seats[i]
        entries == {k \in DOMAIN showtime_seats :
                      showtime_seats[k].seat_number = seat_num}
        is_booked ==
          \E id \in DOMAIN bookings :
             /\ bookings[id].showtime_id = showtime_id
             /\ \E k \in DOMAIN bookings[id].seats : bookings[id].seats[k] = seat_num
             /\ bookings[id].status = "confirmed"
    IN  IF entries = {}
        THEN AMCMCPServerSeatLoop(showtime_id, seats, i + 1,
               Append(unavailable_seats,
                      [seat_num |-> seat_num, reason |-> "doesn't exist"]),
               total_price)
        ELSE IF is_booked
        THEN AMCMCPServerSeatLoop(showtime_id, seats, i + 1,
               Append(unavailable_seats,
                      [seat_num |-> seat_num, reason |-> "already booked"]),
               total_price)
        ELSE LET entry == showtime_seats[CHOOSE k \in entries :
                                           \A j \in entries : j <= k]
                 seat_price == IF "price" \in DOMAIN entry
                               THEN entry.price ELSE 1500
             IN  AMCMCPServerSeatLoop(showtime_id, seats, i + 1,
                   unavailable_seats, total_price + seat_price)

AMCMCPServerGetSeatMap(args) ==
  LET showtime_id == args.showtime_id
  IN  /\ call' = [op |-> "get_seat_map", showtime_id |-> showtime_id]
      /\ UNCHANGED <<bookings, payments>>
      /\ IF showtime_id = "" \/ showtime_id \notin DOMAIN showtimes
         THEN result' = [error |-> "Invalid showtime ID"]
         ELSE
           LET seats == IF showtime_id \in DOMAIN seats_data
                        THEN seats_data[showtime_id] ELSE << >>
               is_booked(seat_data) ==
                 \E id \in DOMAIN bookings :
                    /\ bookings[id].showtime_id = showtime_id
                    /\ \E k \in DOMAIN bookings[id].seats :
                          bookings[id].seats[k] = seat_data.seat_number
                    /\ bookings[id].status = "confirmed"
               showtime == showtimes[showtime_id]
           IN  result' =
                 [showtime_id |-> showtime_id,
                  movie   |-> IF showtime.movie_id \in DOMAIN movies
                              THEN movies[showtime.movie_id].title ELSE "Unknown",
                  theater |-> IF showtime.theater_id \in DOMAIN theaters
                              THEN theaters[showtime.theater_id].name
                              ELSE "Unknown Theater",
                  date    |-> showtime.date,
                  time    |-> showtime.time,
                  seat_map |->
                    [i \in DOMAIN seats |->
                       [seat_number  |-> seats[i].seat_number,
                        row          |-> seats[i].row,
                        column       |-> seats[i].column,
                        is_available |-> ~is_booked(seats[i]),
                        price_tier   |-> seats[i].price_tier,
                        price        |-> IF "price" \in DOMAIN seats[i]
                                         THEN seats[i].price ELSE 1500]]]

AMCMCPServerBookSeats(args) ==
  LET showtime_id == args.showtime_id
      seats       == args.seats
      user_id     == args.user_id
  IN  /\ call' = [op |-> "book_seats", showtime_id |-> showtime_id,
                  seats |-> seats, user_id |-> user_id]
      /\ IF showtime_id = "" \/ showtime_id \notin DOMAIN showtimes
         THEN /\ result' = [error |-> "Invalid showtime ID"]
              /\ UNCHANGED <<bookings, payments>>
         ELSE IF seats = << >> \/ user_id = ""
         THEN /\ result' = [error |-> "Seats and user_id are required"]
              /\ UNCHANGED <<bookings, payments>>
         ELSE
           LET loop == AMCMCPServerSeatLoop(showtime_id, seats, 1, << >>, 0)
               showtime == showtimes[showtime_id]
           IN  IF loop.unavailable_seats # << >>
               THEN /\ result' = [error |-> "Unavailable seats",
                                  unavailable_seats |-> loop.unavailable_seats]
                    /\ UNCHANGED <<bookings, payments>>
               ELSE \E booking_id \in FreshBookingIds :
                    /\ bookings' =
                         (booking_id :>
                            [booking_id  |-> booking_id,
                             showtime_id |-> showtime_id,
                             seats       |-> seats,
                             user_id     |-> user_id,
                             status      |-> "pending",
                             total_price |-> loop.total_price]) @@ bookings
                    /\ result' =
                         [booking_id  |-> booking_id,
                          status      |-> "pending",
                          movie   |-> IF showtime.movie_id \in DOMAIN movies
                                      THEN movies[showtime.movie_id].title
                                      ELSE "Unknown",
                          theater |-> IF showtime.theater_id \in DOMAIN theaters
                                      THEN theaters[showtime.theater_id].name
                                      ELSE "Unknown Theater",
                          date        |-> showtime.date,
                          time        |-> showtime.time,
                          seats       |-> seats,
                          total_price |-> loop.total_price]
                    /\ UNCHANGED payments

AMCMCPServerProcessPayment(args) ==
  LET booking_id     == args.booking_id
      payment_method == args.payment_method
      amount         == args.amount
  IN  /\ call' = [op |-> "process_payment", booking_id |-> booking_id,
                  payment_method |-> payment_method, amount |-> amount]
      /\ IF booking_id = "" \/ booking_id \notin DOMAIN bookings
         THEN /\ result' = [error |-> "Invalid booking ID"]
              /\ UNCHANGED <<bookings, payments>>
         ELSE
           LET booking  == bookings[booking_id]
               showtime == showtimes[booking.showtime_id]
           IN  IF booking.status # "pending"
               THEN /\ result' = [error |-> "Booking status",
                                  status |-> booking.status]
                    /\ UNCHANGED <<bookings, payments>>
               ELSE IF AmountMismatch(amount, booking.total_price)
               THEN /\ result' = [error |-> "Amount mismatch",
                                  expected |-> booking.total_price,
                                  got |-> amount]
                    /\ UNCHANGED <<bookings, payments>>
               ELSE \E payment_id \in FreshPaymentIds :
                    /\ payments' =
                         (payment_id :>
                            [payment_id     |-> payment_id,
                             booking_id     |-> booking_id,
                             amount         |-> amount,
                             payment_method |-> payment_method,
                             status         |-> "success",
                             receipt_url    |->
                               <<"https://amc.com/receipts/", payment_id>>])
                           @@ payments
                    /\ bookings' =
                         [bookings EXCEPT ![booking_id].status = "confirmed"]
                    /\ result' =
                         [payment_id     |-> payment_id,
                          payment_status |-> "success",
                          booking_id     |-> booking_id,
                          receipt_url    |->
                            <<"https://amc.com/receipts/", payment_id>>,
                          confirmation   |->
                            [movie   |-> IF showtime.movie_id \in DOMAIN movies
                                         THEN movies[showtime.movie_id].title
                                         ELSE "Unknown",
                             theater |-> IF showtime.theater_id \in DOMAIN theaters
                                         THEN theaters[showtime.theater_id].name
                                         ELSE "Unknown Theater",
                             date       |-> showtime.date,
                             time       |-> showtime.time,
                             seats      |-> booking.seats,
                             total_paid |-> amount]]

\* the requests that either implementation is given
EitherShowtimeIdArgs == {"st001", "st002", "st003", "st999"}

EitherSeatListArgs ==
  {<<"A5">>, <<"A6">>, <<"Z99">>, <<"A5", "A6">>, <<"A6", "A6">>,
   <<"Z99", "A5">>}

EitherAmountArgs(booking_id) ==
  LET total_price == IF booking_id \in DOMAIN bookings
                     THEN bookings[booking_id].total_price
                     ELSE DefaultPrice
  IN  {total_price - 1, total_price, total_price + 2}

FastMCPGetSeatMap ==
  /\ Idle
  /\ \E showtime_id \in EitherShowtimeIdArgs : GetSeatMap(showtime_id)

FastMCPBookSeats ==
  /\ Idle
  /\ \E showtime_id \in EitherShowtimeIdArgs, seats \in EitherSeatListArgs,
        user_id \in UserIdArgs \ {""} : BookSeats(showtime_id, seats, user_id)

FastMCPProcessPayment ==
  /\ Idle
  /\ \E booking_id \in BookingIds, payment_method \in PaymentMethodArgs :
        \E amount \in EitherAmountArgs(booking_id) :
           ProcessPayment(booking_id, payment_method, amount)

AMCMCPServerCallGetSeatMap ==
  /\ Idle
  /\ \E showtime_id \in EitherShowtimeIdArgs :
        AMCMCPServerGetSeatMap([showtime_id |-> showtime_id])

AMCMCPServerCallBookSeats ==
  /\ Idle
  /\ \E showtime_id \in EitherShowtimeIdArgs, seats \in EitherSeatListArgs,
        user_id \in UserIdArgs \ {""} :
        AMCMCPServerBookSeats([showtime_id |-> showtime_id, seats |-> seats,
                               user_id |-> user_id])

AMCMCPServerCallProcessPayment ==
  /\ Idle
  /\ \E booking_id \in BookingIds, payment_method \in PaymentMethodArgs :
        \E amount \in EitherAmountArgs(booking_id) :
           AMCMCPServerProcessPayment([booking_id |-> booking_id,
                                       payment_method |-> payment_method,
                                       amount |-> amount])

EitherServerNext ==
  \/ FastMCPGetSeatMap
  \/ FastMCPBookSeats
  \/ FastMCPProcessPayment
  \/ AMCMCPServerCallGetSeatMap
  \/ AMCMCPServerCallBookSeats
  \/ AMCMCPServerCallProcessPayment
  \/ Respond

EitherServerSpec == Init /\ [][EitherServerNext]_vars

----------------------------------------------------------------------------
(* Properties *)

\* a payload {"error": ...}
IsError(payload) == "error" \in DOMAIN payload

\* the seat identifiers of a seat list
SeatSet(seats) == {seats[i] : i \in DOMAIN seats}

\* the seat identifiers of the layout of a showtime
LayoutSeats(showtime_id) ==
  IF showtime_id \in DOMAIN seats_data
  THEN {seats_data[showtime_id][i].seat_number :
          i \in DOMAIN seats_data[showtime_id]}
  ELSE {}

\* the confirmed bookings of a showtime
ConfirmedBookings(showtime_id) ==
  {id \in DOMAIN bookings : /\ bookings[id].showtime_id = showtime_id
                            /\ bookings[id].status = "confirmed"}

\* the seats of a showtime that some confirmed booking lists
TakenSeats(showtime_id) ==
  UNION {SeatSet(bookings[id].seats) : id \in ConfirmedBookings(showtime_id)}

\* the payments that reference a booking
PaymentsOf(booking_id) ==
  {p \in DOMAIN payments : payments[p].booking_id = booking_id}

(* C1: no seat of a showtime is listed by two distinct confirmed bookings  *)
(* of that showtime.                                                       *)
C1_NoDoubleBooking ==
  \A id1 \in DOMAIN bookings, id2 \in DOMAIN bookings :
     ( /\ id1 # id2
       /\ bookings[id1].showtime_id = bookings[id2].showtime_id
       /\ bookings[id1].status = "confirmed"
       /\ bookings[id2].status = "confirmed" )
     => SeatSet(bookings[id1].seats) \cap SeatSet(bookings[id2].seats) = {}

(* C2: of two concurrent book_seats calls on the same showtime whose seat  *)
(* lists share a seat, at most one creates a booking: a book_seats that    *)
(* runs while the payload of a successful one is still being returned, on  *)
(* the same showtime and with a common seat, returns an error.             *)
C2_OverlappingReserveExcluded ==
  [][ ( /\ call.op = "book_seats"
        /\ ~IsError(result)
        /\ call'.op = "book_seats"
        /\ call'.showtime_id = call.showtime_id
        /\ SeatSet(call'.seats) \cap SeatSet(call.seats) # {}
        /\ <<call', result'>> # <<call, result>> )
      => IsError(result') ]_vars

(* C3: for every showtime and every slot of its layout, the seat map flags *)
(* the seat unavailable exactly when a confirmed booking of that showtime  *)
(* lists it; a returned seat map is that of the current ledger.            *)
C3_AvailabilitySoundComplete ==
  /\ \A showtime_id \in DOMAIN showtimes :
        LET seat_map == GetSeatMapResult(showtime_id).seat_map
        IN  /\ DOMAIN seat_map = DOMAIN ShowtimeSeats(showtime_id)
            /\ \A i \in DOMAIN seat_map :
                 /\ seat_map[i].seat_number =
                      ShowtimeSeats(showtime_id)[i].seat_number
                 /\ seat_map[i].is_available
                      <=> seat_map[i].seat_number \notin TakenSeats(showtime_id)
  /\ (call.op = "get_seat_map" /\ ~IsError(result))
        => \A i \in DOMAIN result.seat_map :
              result.seat_map[i].is_available
                <=> result.seat_map[i].seat_number
                      \notin TakenSeats(call.showtime_id)

\* a seat map with a taken seat and a free seat has been returned
C3_Witness ==
  /\ call.op = "get_seat_map"
  /\ ~IsError(result)
  /\ \E i \in DOMAIN result.seat_map : ~result.seat_map[i].is_available
  /\ \E i \in DOMAIN result.seat_map : result.seat_map[i].is_available
  /\ \E id \in DOMAIN bookings :
        /\ bookings[id].showtime_id = call.showtime_id
        /\ bookings[id].status = "pending"

(* C4: a book_seats call with a seat that is not in the layout of the      *)
(* showtime or that a confirmed booking of the showtime lists returns an   *)
(* error and leaves the booking ledger as it was.                          *)
C4_ReserveAllOrNothing ==
  [][ ( /\ call'.op = "book_seats"
        /\ <<call', result'>> # <<call, result>>
        /\ \E i \in DOMAIN call'.seats :
              \/ call'.seats[i] \notin LayoutSeats(call'.showtime_id)
              \/ call'.seats[i] \in TakenSeats(call'.showtime_id) )
      => (IsError(result') /\ bookings' = bookings) ]_vars

\* a request with one bookable seat and one taken seat has been rejected
C4_Witness ==
  /\ call.op = "book_seats"
  /\ IsError(result)
  /\ call.user_id # ""
  /\ \E i \in DOMAIN call.seats :
        /\ call.seats[i] \in LayoutSeats(call.showtime_id)
        /\ call.seats[i] \notin TakenSeats(call.showtime_id)
  /\ \E i \in DOMAIN call.seats :
        /\ call.seats[i] \in LayoutSeats(call.showtime_id)
        /\ call.seats[i] \in TakenSeats(call.showtime_id)

(* C5: a successful book_seats returns the identifier and the total price *)
(* of a pending booking; a booking stays pending until a process_payment   *)
(* on it succeeds; process_payment on a pending booking with its total     *)
(* price succeeds and leaves it confirmed; a confirmed booking stays       *)
(* confirmed and every process_payment on it, whatever the amount, fails   *)
(* with "Booking status is confirmed, expected pending".                   *)
C5_ReserveSettleSettle ==
  [][ /\ (call'.op = "book_seats" /\ ~IsError(result')
            /\ <<call', result'>> # <<call, result>>)
         => /\ result'.booking_id \in DOMAIN bookings'
            /\ result'.booking_id \notin DOMAIN bookings
            /\ bookings'[result'.booking_id].status = "pending"
            /\ bookings'[result'.booking_id].total_price = result'.total_price
      /\ \A id \in DOMAIN bookings :
            /\ id \in DOMAIN bookings'
            /\ (bookings[id].status = "pending"
                  /\ ~(call'.op = "process_payment" /\ call'.booking_id = id))
               => bookings'[id].status = "pending"
            /\ bookings[id].status = "confirmed"
               => bookings'[id].status = "confirmed"
      /\ (call'.op = "process_payment"
            /\ <<call', result'>> # <<call, result>>
            /\ call'.booking_id \in DOMAIN bookings)
         => LET booking == bookings[call'.booking_id]
            IN  /\ (booking.status = "pending"
                      /\ call'.amount = booking.total_price)
                   => /\ ~IsError(result')
                      /\ bookings'[call'.booking_id].status = "confirmed"
                /\ booking.status = "confirmed"
                   => result' = [error |-> "Booking status",
                                 status |-> "confirmed"] ]_vars

\* a settled booking has been settled again, with its total price, and the
\* call was rejected
C5_Witness ==
  /\ call.op = "process_payment"
  /\ call.booking_id \in DOMAIN bookings
  /\ bookings[call.booking_id].status = "confirmed"
  /\ call.amount = bookings[call.booking_id].total_price
  /\ result = [error |-> "Booking status", status |-> "confirmed"]

(* C6: at most one Payment record references any booking identifier.       *)
C6_PaidAtMostOnce ==
  \A p1 \in DOMAIN payments, p2 \in DOMAIN payments :
     payments[p1].booking_id = payments[p2].booking_id => p1 = p2

\* a paid booking has been tendered an acceptable amount a second time
C6_Witness ==
  /\ call.op = "process_payment"
  /\ IsError(result)
  /\ PaymentsOf(call.booking_id) # {}
  /\ \E p \in PaymentsOf(call.booking_id) : payments[p].amount = call.amount

(* C7: process_payment on a pending booking with an amount more than 0.01  *)
(* (one cent) away from the total price returns the amount-mismatch error, *)
(* leaves the booking pending and creates no Payment.                      *)
C7_AmountMismatchRejected ==
  [][ ( /\ call'.op = "process_payment"
        /\ <<call', result'>> # <<call, result>>
        /\ call'.booking_id \in DOMAIN bookings
        /\ bookings[call'.booking_id].status = "pending"
        /\ \/ call'.amount - bookings[call'.booking_id].total_price > 1
           \/ bookings[call'.booking_id].total_price - call'.amount > 1 )
      => /\ result' = [error    |-> "Amount mismatch",
                       expected |-> bookings[call'.booking_id].total_price,
                       got      |-> call'.amount]
         /\ bookings'[call'.booking_id].status = "pending"
         /\ payments' = payments ]_vars

\* an underpayment of a pending booking by two cents has been rejected
C7_Witness ==
  /\ call.op = "process_payment"
  /\ IsError(result)
  /\ result.error = "Amount mismatch"
  /\ result.expected - result.got = 2
  /\ bookings[call.booking_id].status = "pending"
  /\ PaymentsOf(call.booking_id) = {}

(* C8: every Payment references a booking of the ledger; a Payment is      *)
(* created only by a process_payment call that returns no error, for a     *)
(* booking that was pending when the call was made.                        *)
C8_PaymentOnlyForPending ==
  /\ [](\A p \in DOMAIN payments : payments[p].booking_id \in DOMAIN bookings)
  /\ [][ /\ DOMAIN payments \subseteq DOMAIN payments'
         /\ \A p \in DOMAIN payments' \ DOMAIN payments :
               /\ call'.op = "process_payment"
               /\ ~IsError(result')
               /\ payments'[p].booking_id = call'.booking_id
               /\ payments'[p].booking_id \in DOMAIN bookings
               /\ bookings[payments'[p].booking_id].status = "pending" ]_vars

\* a payment has just been created for a booking, next to an older payment
C8_Witness ==
  /\ call.op = "process_payment"
  /\ ~IsError(result)
  /\ result.payment_id \in DOMAIN payments
  /\ payments[result.payment_id].booking_id = call.booking_id
  /\ bookings[call.booking_id].status = "confirmed"
  /\ Cardinality(DOMAIN payments) > 1

(* C9: a call that returns an error payload leaves the booking ledger and  *)
(* the payment ledger exactly as they were.                                *)
C9_ErrorsChangeNothing ==
  [][ IsError(result') => (bookings' = bookings /\ payments' = payments) ]_vars

\* a book_seats call without seats or user has been rejected while both
\* ledgers hold records
C9_Witness ==
  /\ IsError(result)
  /\ call.op = "book_seats"
  /\ result.error = "Seats and user_id are required"
  /\ DOMAIN bookings # {}
  /\ DOMAIN payments # {}

(* C10: an existing booking stays in the ledger and its showtime, seat     *)
(* list, user and total price never change; only its status does.          *)
C10_BookingFieldsImmutable ==
  [][ \A id \in DOMAIN bookings :
        /\ id \in DOMAIN bookings'
        /\ bookings'[id].booking_id = bookings[id].booking_id
        /\ bookings'[id].showtime_id = bookings[id].showtime_id
        /\ bookings'[id].seats = bookings[id].seats
        /\ bookings'[id].user_id = bookings[id].user_id
        /\ bookings'[id].total_price = bookings[id].total_price ]_vars

\* a booking has changed status and another booking was made afterwards
C10_Witness ==
  /\ call.op = "book_seats"
  /\ ~IsError(result)
  /\ \E id \in DOMAIN bookings :
        /\ id # result.booking_id
        /\ bookings[id].status = "confirmed"
        /\ bookings[id].seats # << >>

\* the catalog entry of a seat of a showtime
CatalogEntry(showtime_id, seat_number) ==
  CHOOSE e \in {seats_data[showtime_id][i] : i \in DOMAIN seats_data[showtime_id]} :
     e.seat_number = seat_number

\* the catalog price of a seat, 15.00 when its entry has none
CatalogPrice(showtime_id, seat_number) ==
  IF "price" \in DOMAIN CatalogEntry(showtime_id, seat_number)
  THEN CatalogEntry(showtime_id, seat_number).price
  ELSE 1500

\* the sum of the catalog prices of the first n seats of a seat list
RECURSIVE SumOfPrices(_, _, _)
SumOfPrices(showtime_id, seats, n) ==
  IF n = 0 THEN 0
  ELSE CatalogPrice(showtime_id, seats[n]) + SumOfPrices(showtime_id, seats, n - 1)

(* C11: the total price a successful book_seats returns is the sum of the  *)
(* catalog prices of the requested seats, one addend per listed seat and   *)
(* 15.00 for a seat without a price, and it is the total price stored in   *)
(* the booking; every stored total price is that sum for its seat list.    *)
C11_TotalIsSumOfPrices ==
  /\ (call.op = "book_seats" /\ ~IsError(result))
        => /\ result.total_price =
                SumOfPrices(call.showtime_id, call.seats, Len(call.seats))
           /\ result.booking_id \in DOMAIN bookings
           /\ bookings[result.booking_id].total_price = result.total_price
  /\ \A id \in DOMAIN bookings :
        bookings[id].total_price =
          SumOfPrices(bookings[id].showtime_id, bookings[id].seats,
                      Len(bookings[id].seats))

\* two seats with different prices have been booked while a booking of a
\* seat without a price is in the ledger
C11_Witness ==
  /\ call.op = "book_seats"
  /\ ~IsError(result)
  /\ call.seats = <<"A6", "A5">>
  /\ result.total_price = 2750
  /\ \E id \in DOMAIN bookings :
        /\ bookings[id].showtime_id = "st002"
        /\ bookings[id].total_price = 1500

(* C12: a seat listed in a confirmed booking of a showtime stays listed in *)
(* a confirmed booking of it, and every book_seats of any user on that     *)
(* showtime whose seat list includes such a seat is rejected with the seat *)
(* reported as already booked.                                             *)
C12_TakenSeatNeverReleased ==
  [][ /\ \A showtime_id \in DOMAIN showtimes :
            TakenSeats(showtime_id) \subseteq TakenSeats(showtime_id)'
      /\ ( /\ call'.op = "book_seats"
           /\ <<call', result'>> # <<call, result>>
           /\ call'.user_id # "" )
         => \A seat \in SeatSet(call'.seats) \cap TakenSeats(call'.showtime_id) :
               /\ IsError(result')
               /\ result'.error = "Unavailable seats"
               /\ \E k \in DOMAIN result'.unavailable_seats :
                     result'.unavailable_seats[k] =
                       [seat_num |-> seat, reason |-> "already booked"]
               /\ bookings' = bookings ]_vars

\* user u2 has asked for a seat that a confirmed booking of user u1 lists,
\* together with a free seat, and has been refused
C12_Witness ==
  /\ call.op = "book_seats"
  /\ call.user_id = "u2"
  /\ call.seats = <<"A6", "A5">>
  /\ IsError(result)
  /\ result.unavailable_seats = <<[seat_num |-> "A5", reason |-> "already booked"]>>
  /\ \E id \in DOMAIN bookings :
        /\ bookings[id].user_id = "u1"
        /\ bookings[id].status = "confirmed"
        /\ bookings[id].seats = <<"A5">>
        /\ \E pid \in DOMAIN payments : payments[pid].booking_id = id

(* C13: a book_seats for an existing showtime with a user id and a seat    *)
(* list, both non-empty, whose seats are all in the layout and in no       *)
(* confirmed booking of the showtime succeeds and stores a new booking, in *)
(* whatever pending bookings the seats are listed; and get_seat_map flags  *)
(* every seat that is in no confirmed booking as available.                *)
C13_PendingNeverBlocks ==
  [][ /\ ( /\ call'.op = "book_seats"
           /\ <<call', result'>> # <<call, result>>
           /\ call'.showtime_id \in DOMAIN showtimes
           /\ call'.seats # << >>
           /\ call'.user_id # ""
           /\ SeatSet(call'.seats) \subseteq LayoutSeats(call'.showtime_id)
           /\ SeatSet(call'.seats) \cap TakenSeats(call'.showtime_id) = {} )
         => /\ ~IsError(result')
            /\ result'.booking_id \notin DOMAIN bookings
            /\ result'.booking_id \in DOMAIN bookings'
            /\ bookings'[result'.booking_id].seats = call'.seats
      /\ ( /\ call'.op = "get_seat_map"
           /\ <<call', result'>> # <<call, result>>
           /\ ~IsError(result') )
         => \A k \in DOMAIN result'.seat_map :
               result'.seat_map[k].seat_number \notin TakenSeats(call'.showtime_id)
                  => result'.seat_map[k].is_available ]_vars

\* a booking has succeeded for seats that a pending booking of the same
\* showtime already lists
C13_Witness ==
  /\ call.op = "book_seats"
  /\ ~IsError(result)
  /\ \E id \in DOMAIN bookings \ {result.booking_id} :
        /\ bookings[id].status = "pending"
        /\ bookings[id].showtime_id = call.showtime_id
        /\ bookings[id].seats = call.seats
        /\ Len(call.seats) = 2

\* the positions of a seat list whose seat fails a check of book_seats
FailingPositions(showtime_id, seats) ==
  {i \in DOMAIN seats :
      \/ seats[i] \notin LayoutSeats(showtime_id)
      \/ seats[i] \in TakenSeats(showtime_id)}

\* the k-th failing position of a seat list, in request order
FailingPosition(showtime_id, seats, k) ==
  CHOOSE i \in FailingPositions(showtime_id, seats) :
     Cardinality({j \in FailingPositions(showtime_id, seats) : j < i}) = k - 1

\* the one reason a failing seat is reported with
FailingReason(showtime_id, seat) ==
  IF seat \notin LayoutSeats(showtime_id) THEN "doesn't exist" ELSE "already booked"

(* C14: a book_seats that passes the argument checks and lists at least    *)
(* one seat that is not in the layout or is in a confirmed booking returns *)
(* the error whose list has one entry for each such position of the seat   *)
(* list, in request order, with the reason doesn't exist for a seat not in *)
(* the layout and already booked otherwise, and no entry for another seat. *)
C14_ErrorListsEveryFailingSeat ==
  [][ ( /\ call'.op = "book_seats"
        /\ <<call', result'>> # <<call, result>>
        /\ call'.showtime_id \in DOMAIN showtimes
        /\ call'.seats # << >>
        /\ call'.user_id # ""
        /\ FailingPositions(call'.showtime_id, call'.seats) # {} )
      => /\ IsError(result')
         /\ result'.error = "Unavailable seats"
         /\ result'.unavailable_seats =
              [k \in 1..Cardinality(FailingPositions(call'.showtime_id, call'.seats)) |->
                 LET seat == call'.seats[FailingPosition(call'.showtime_id, call'.seats, k)]
                 IN  [seat_num |-> seat,
                      reason |-> FailingReason(call'.showtime_id, seat)]] ]_vars

\* a rejected request whose two seats fail for different reasons
C14_Witness ==
  /\ call.op = "book_seats"
  /\ IsError(result)
  /\ result.error = "Unavailable seats"
  /\ call.seats = <<"A5", "Z99">>
  /\ result.unavailable_seats =
       <<[seat_num |-> "A5", reason |-> "already booked"],
         [seat_num |-> "Z99", reason |-> "doesn't exist"]>>

(* C15: a get_seat_map call changes neither the bookings nor the payments, *)
(* and the flags of its seat map are those of the ledger at the time of    *)
(* the call: a seat is flagged unavailable exactly when a booking that is  *)
(* confirmed at that time lists it, so the seats of a booking are flagged  *)
(* available while it is pending and unavailable once it has been paid.    *)
C15_AvailabilityPureLiveRead ==
  [][ ( /\ call'.op = "get_seat_map"
        /\ <<call', result'>> # <<call, result>> )
      => /\ bookings' = bookings
         /\ payments' = payments
         /\ IsError(result') <=> call'.showtime_id \notin DOMAIN showtimes
         /\ ~IsError(result') =>
              /\ {result'.seat_map[k].seat_number : k \in DOMAIN result'.seat_map}
                   = LayoutSeats(call'.showtime_id)
              /\ \A k \in DOMAIN result'.seat_map :
                    result'.seat_map[k].is_available
                      <=> \A id \in DOMAIN bookings :
                             ~ /\ bookings[id].showtime_id = call'.showtime_id
                               /\ bookings[id].status = "confirmed"
                               /\ result'.seat_map[k].seat_number
                                    \in SeatSet(bookings[id].seats) ]_vars

\* one seat map that shows the seat of a paid booking as unavailable and
\* the seat of a booking that is still pending as available
C15_Witness ==
  /\ call.op = "get_seat_map"
  /\ call.showtime_id = "st001"
  /\ ~IsError(result)
  /\ \E paid \in DOMAIN bookings, open \in DOMAIN bookings :
        /\ bookings[paid].status = "confirmed"
        /\ bookings[open].status = "pending"
        /\ bookings[paid].showtime_id = "st001"
        /\ bookings[open].showtime_id = "st001"
        /\ bookings[paid].seats = <<"A5">>
        /\ bookings[open].seats = <<"A6">>
        /\ \E pid \in DOMAIN payments : payments[pid].booking_id = paid
        /\ \A k \in DOMAIN result.seat_map :
              result.seat_map[k].is_available
                 <=> result.seat_map[k].seat_number = "A6"

(* C16: process_payment for a booking id that is not in the ledger, the    *)
(* empty one included, returns Invalid booking ID; for a booking that is   *)
(* not pending it returns the status error naming the booking's status,    *)
(* whatever the amount; and only for a pending booking can it return the   *)
(* amount mismatch error.                                                  *)
C16_SettleCheckOrder ==
  [][ ( /\ call'.op = "process_payment"
        /\ <<call', result'>> # <<call, result>> )
      => IF call'.booking_id \notin DOMAIN bookings
         THEN result' = [error |-> "Invalid booking ID"]
         ELSE IF bookings[call'.booking_id].status # "pending"
         THEN result' = [error |-> "Booking status",
                         status |-> bookings[call'.booking_id].status]
         ELSE /\ result' # [error |-> "Invalid booking ID"]
              /\ IsError(result') =>
                   /\ result'.error = "Amount mismatch"
                   /\ call'.amount # bookings[call'.booking_id].total_price ]_vars

\* a wrong amount offered for a confirmed booking has been answered with
\* the status error
C16_Witness ==
  /\ call.op = "process_payment"
  /\ call.booking_id \in DOMAIN bookings
  /\ bookings[call.booking_id].status = "confirmed"
  /\ call.amount = bookings[call.booking_id].total_price + 2
  /\ result = [error |-> "Booking status", status |-> "confirmed"]

(* C17: book_seats for a showtime id that is not in the catalog, the empty *)
(* one included, returns Invalid showtime ID, also when the seat list or   *)
(* the user id is empty; for a showtime of the catalog an empty seat list  *)
(* or an empty user id returns Seats and user_id are required, whatever    *)
(* the seats are, and no other request returns either error.               *)
C17_ReserveCheckOrder ==
  call.op = "book_seats" =>
     IF call.showtime_id \notin DOMAIN showtimes
     THEN result = [error |-> "Invalid showtime ID"]
     ELSE IF call.seats = << >> \/ call.user_id = ""
     THEN result = [error |-> "Seats and user_id are required"]
     ELSE /\ result # [error |-> "Invalid showtime ID"]
          /\ result # [error |-> "Seats and user_id are required"]

\* a request with an empty showtime id, no seats and no user has been
\* answered with Invalid showtime ID
C17_Witness ==
  /\ call = [op |-> "book_seats", showtime_id |-> "", seats |-> << >>,
             user_id |-> ""]
  /\ result = [error |-> "Invalid showtime ID"]
  /\ DOMAIN bookings # {}

(* C18: no step removes a booking or a payment; the status of a booking    *)
(* either stays what it was or goes from pending to confirmed, so that a   *)
(* confirmed booking stays confirmed; every booking is stored as pending   *)
(* and none is ever cancelled; and every payment has the status success.   *)
C18_LifecycleMonotone ==
  [][ /\ DOMAIN bookings \subseteq DOMAIN bookings'
      /\ DOMAIN payments \subseteq DOMAIN payments'
      /\ \A id \in DOMAIN bookings :
            \/ bookings'[id].status = bookings[id].status
            \/ /\ bookings[id].status = "pending"
               /\ bookings'[id].status = "confirmed"
      /\ \A id \in DOMAIN bookings' \ DOMAIN bookings :
            bookings'[id].status = "pending"
      /\ \A id \in DOMAIN bookings' :
            bookings'[id].status \in {"pending", "confirmed"}
      /\ \A pid \in DOMAIN payments' :
            payments'[pid].status = "success" ]_vars

\* a booking has been paid while another booking of the same showtime that
\* lists one of its seats is still pending, and a later payment attempt
\* for that one has been refused for its amount
C18_Witness ==
  /\ call.op = "process_payment"
  /\ IsError(result)
  /\ result.error = "Amount mismatch"
  /\ bookings[call.booking_id].status = "pending"
  /\ \E id \in DOMAIN bookings :
        /\ bookings[id].status = "confirmed"
        /\ bookings[id].showtime_id = bookings[call.booking_id].showtime_id
        /\ SeatSet(bookings[id].seats) \cap SeatSet(bookings[call.booking_id].seats) # {}
        /\ \E pid \in DOMAIN payments :
              /\ payments[pid].booking_id = id
              /\ payments[pid].status = "success"

(* C19: a book_seats that succeeds adds one booking to the ledger, under   *)
(* the returned identifier, which no booking had before, with the status   *)
(* pending and the showtime, seat list and user of the request; every      *)
(* booking that was in the ledger is as it was, and so are the payments.   *)
C19_ReserveAddsOneBooking ==
  [][ ( /\ call'.op = "book_seats"
        /\ <<call', result'>> # <<call, result>>
        /\ ~IsError(result') )
      => /\ result'.booking_id \notin DOMAIN bookings
         /\ DOMAIN bookings' = DOMAIN bookings \cup {result'.booking_id}
         /\ bookings'[result'.booking_id].booking_id = result'.booking_id
         /\ bookings'[result'.booking_id].status = "pending"
         /\ result'.status = "pending"
         /\ bookings'[result'.booking_id].showtime_id = call'.showtime_id
         /\ bookings'[result'.booking_id].seats = call'.seats
         /\ bookings'[result'.booking_id].user_id = call'.user_id
         /\ \A id \in DOMAIN bookings : bookings'[id] = bookings[id]
         /\ payments' = payments ]_vars

\* a second booking has been stored next to a paid one
C19_Witness ==
  /\ call.op = "book_seats"
  /\ ~IsError(result)
  /\ Cardinality(DOMAIN bookings) = 2
  /\ bookings[result.booking_id].status = "pending"
  /\ bookings[result.booking_id].seats = <<"A6", "A6">>
  /\ \E id \in DOMAIN bookings \ {result.booking_id} :
        /\ bookings[id].status = "confirmed"
        /\ \E pid \in DOMAIN payments : payments[pid].booking_id = id

(* C20: a process_payment that succeeds adds one payment to the ledger,    *)
(* under the returned identifier, which no payment had before, with the    *)
(* status success and the identifier of the paid booking; that booking     *)
(* goes from pending to confirmed; every other booking and every payment   *)
(* that was in the ledger is as it was.                                    *)
C20_SettleAddsOnePayment ==
  [][ ( /\ call'.op = "process_payment"
        /\ <<call', result'>> # <<call, result>>
        /\ ~IsError(result') )
      => /\ result'.payment_id \notin DOMAIN payments
         /\ DOMAIN payments' = DOMAIN payments \cup {result'.payment_id}
         /\ payments'[result'.payment_id].payment_id = result'.payment_id
         /\ payments'[result'.payment_id].status = "success"
         /\ payments'[result'.payment_id].booking_id = call'.booking_id
         /\ \A pid \in DOMAIN payments : payments'[pid] = payments[pid]
         /\ call'.booking_id \in DOMAIN bookings
         /\ bookings[call'.booking_id].status = "pending"
         /\ DOMAIN bookings' = DOMAIN bookings
         /\ bookings'[call'.booking_id].status = "confirmed"
         /\ \A id \in DOMAIN bookings \ {call'.booking_id} :
               bookings'[id] = bookings[id] ]_vars

\* a second payment has been stored, for another booking than the first
C20_Witness ==
  /\ call.op = "process_payment"
  /\ ~IsError(result)
  /\ payments[result.payment_id].amount = call.amount
  /\ \E pid \in DOMAIN payments \ {result.payment_id} :
        /\ payments[pid].booking_id # call.booking_id
        /\ bookings[payments[pid].booking_id].status = "confirmed"
  /\ \A id \in DOMAIN bookings : bookings[id].status = "confirmed"

(* C21: a process_payment refused for its amount leaves the booking        *)
(* pending with its total price, however often it happens; a               *)
(* process_payment of a pending booking with the exact total price         *)
(* succeeds and confirms it; and when the exact payment is retried fairly  *)
(* every pending booking is eventually confirmed.                          *)
C21_RejectedSettleCanBeRetried ==
  /\ [][ ( /\ call'.op = "process_payment"
           /\ <<call', result'>> # <<call, result>>
           /\ call'.booking_id \in DOMAIN bookings
           /\ bookings[call'.booking_id].status = "pending" )
         => IF call'.amount = bookings[call'.booking_id].total_price
            THEN /\ ~IsError(result')
                 /\ bookings'[call'.booking_id].status = "confirmed"
            ELSE IsError(result') =>
                   /\ result'.error = "Amount mismatch"
                   /\ bookings' = bookings
                   /\ payments' = payments ]_vars
  /\ \A booking_id \in BookingIds :
        (booking_id \in DOMAIN bookings /\ bookings[booking_id].status = "pending")
           ~> (booking_id \in DOMAIN bookings /\ bookings[booking_id].status = "confirmed")

\* a payment has just been refused for its amount, the booking is still
\* pending, and an earlier booking has been paid with its exact total
C21_Witness ==
  /\ call.op = "process_payment"
  /\ IsError(result)
  /\ result.error = "Amount mismatch"
  /\ result.got = result.expected + 2
  /\ bookings[call.booking_id].status = "pending"
  /\ bookings[call.booking_id].total_price = result.expected
  /\ \E pid \in DOMAIN payments :
        payments[pid].amount = bookings[payments[pid].booking_id].total_price

\* the seat layout of a showtime as the catalog lists it
CatalogLayout(showtime_id) ==
  IF showtime_id \in DOMAIN seats_data THEN seats_data[showtime_id] ELSE << >>

(* C22: get_seat_map for a showtime of the catalog returns, whatever the   *)
(* bookings are, one entry for each seat of the showtime's layout, in the  *)
(* order of the layout, with the seat's number, row and column.            *)
C22_SeatMapInCatalogOrder ==
  (call.op = "get_seat_map" /\ call.showtime_id \in DOMAIN showtimes)
     => /\ ~IsError(result)
        /\ Len(result.seat_map) = Len(CatalogLayout(call.showtime_id))
        /\ \A k \in 1..Len(CatalogLayout(call.showtime_id)) :
              /\ result.seat_map[k].seat_number =
                   CatalogLayout(call.showtime_id)[k].seat_number
              /\ result.seat_map[k].row = CatalogLayout(call.showtime_id)[k].row
              /\ result.seat_map[k].column =
                   CatalogLayout(call.showtime_id)[k].column

\* the seat map of a showtime whose first seat is taken and whose second
\* seat is free lists both, the taken one first
C22_Witness ==
  /\ call.op = "get_seat_map"
  /\ ~IsError(result)
  /\ Len(result.seat_map) = 2
  /\ result.seat_map[1].seat_number = "A5"
  /\ ~result.seat_map[1].is_available
  /\ result.seat_map[2].seat_number = "A6"
  /\ result.seat_map[2].is_available
  /\ Cardinality(DOMAIN bookings) = 1

\* the bookings of a showtime
BookingsOf(showtime_id) ==
  {id \in DOMAIN bookings : bookings[id].showtime_id = showtime_id}

\* the showtimes a call is about: the showtime of a book_seats, the showtime
\* of the booking of a process_payment
ShowtimesOfCall(c) ==
  IF c.op = "book_seats" THEN {c.showtime_id}
  ELSE IF c.op = "process_payment" /\ c.booking_id \in DOMAIN bookings
  THEN {bookings[c.booking_id].showtime_id}
  ELSE {}

(* C23: a book_seats or process_payment on one showtime leaves, for every  *)
(* other showtime T, the bookings of T and their payments as they were,    *)
(* the seat map of T as it was, and the outcome of every book_seats on T   *)
(* (the seats it would report and the price it would charge) as it was,    *)
(* also for seats that carry the same label in both layouts; so two calls  *)
(* on different showtimes give the same results and, but for the           *)
(* generated identifiers, the same ledgers in either order.                *)
C23_ShowtimesIndependent ==
  [][ \A T \in DOMAIN showtimes \ ShowtimesOfCall(call') :
         /\ BookingsOf(T)' = BookingsOf(T)
         /\ \A id \in BookingsOf(T) : bookings'[id] = bookings[id]
         /\ \A pid \in DOMAIN payments' :
               payments'[pid].booking_id \in BookingsOf(T)
                  => (pid \in DOMAIN payments /\ payments'[pid] = payments[pid])
         /\ SeatMap(T)' = SeatMap(T)
         /\ \A seats \in ShowtimesSeatListArgs :
               /\ UnavailableSeats(T, seats)' = UnavailableSeats(T, seats)
               /\ TotalPrice(T, seats)' = TotalPrice(T, seats) ]_vars

\* seat A5 of one showtime is in a confirmed booking, and a booking of seat
\* A5 of another showtime has succeeded
C23_Witness ==
  /\ call.op = "book_seats"
  /\ ~IsError(result)
  /\ call.showtime_id = "st002"
  /\ call.seats = <<"A5">>
  /\ \E id \in DOMAIN bookings :
        /\ bookings[id].showtime_id = "st001"
        /\ bookings[id].status = "confirmed"
        /\ Contains(bookings[id].seats, "A5")

(* C24: process_payment succeeds exactly when the booking is in the        *)
(* ledger, is pending, and the amount passes the comparison with the       *)
(* booking's own total price; with the exact total price a pending booking *)
(* is confirmed, whatever other bookings list its seats and whatever their *)
(* status is.                                                              *)
C24_SettleNeverRevalidatesSeats ==
  [][ ( /\ call'.op = "process_payment"
        /\ <<call', result'>> # <<call, result>> )
      => /\ ~IsError(result')
            <=> /\ call'.booking_id \in DOMAIN bookings
                /\ bookings[call'.booking_id].status = "pending"
                /\ ~AmountMismatch(call'.amount,
                                   bookings[call'.booking_id].total_price)
         /\ ( /\ call'.booking_id \in DOMAIN bookings
              /\ bookings[call'.booking_id].status = "pending"
              /\ call'.amount = bookings[call'.booking_id].total_price )
            => /\ ~IsError(result')
               /\ bookings'[call'.booking_id].status = "confirmed" ]_vars

\* a booking has been paid and confirmed while another booking of the same
\* showtime that lists one of its seats was already confirmed
C24_Witness ==
  /\ call.op = "process_payment"
  /\ ~IsError(result)
  /\ call.amount = bookings[call.booking_id].total_price
  /\ bookings[call.booking_id].status = "confirmed"
  /\ \E id \in DOMAIN bookings \ {call.booking_id} :
        /\ bookings[id].status = "confirmed"
        /\ bookings[id].showtime_id = bookings[call.booking_id].showtime_id
        /\ SeatSet(bookings[id].seats)
             \cap SeatSet(bookings[call.booking_id].seats) # {}

(* C25: in every state a booking is confirmed exactly when one payment     *)
(* references it and pending exactly when none does, every payment         *)
(* references a booking of the ledger, and there are as many payments as   *)
(* confirmed bookings.                                                     *)
C25_PaymentsMatchConfirmed ==
  /\ \A id \in DOMAIN bookings :
        /\ bookings[id].status = "confirmed" <=> Cardinality(PaymentsOf(id)) = 1
        /\ bookings[id].status = "pending" <=> PaymentsOf(id) = {}
  /\ \A pid \in DOMAIN payments : payments[pid].booking_id \in DOMAIN bookings
  /\ Cardinality(DOMAIN payments) =
       Cardinality({id \in DOMAIN bookings : bookings[id].status = "confirmed"})

\* one booking is confirmed and has its payment, another is pending and has
\* been offered a wrong amount, which has left it without a payment
C25_Witness ==
  /\ Cardinality(DOMAIN payments) = 1
  /\ \E id \in DOMAIN bookings :
        bookings[id].status = "confirmed" /\ Cardinality(PaymentsOf(id)) = 1
  /\ call.op = "process_payment"
  /\ IsError(result)
  /\ call.booking_id \in DOMAIN bookings
  /\ bookings[call.booking_id].status = "pending"
  /\ PaymentsOf(call.booking_id) = {}

(* C26: process_payment of a pending booking succeeds for every amount     *)
(* that differs from the booking's total price by at most 0.01, a          *)
(* difference of exactly 0.01 above or below included, and stores the      *)
(* amount that was offered; every payment's amount is within 0.01 of its   *)
(* booking's total price.                                                  *)
C26_ToleranceInclusive ==
  [][ /\ ( /\ call'.op = "process_payment"
           /\ <<call', result'>> # <<call, result>>
           /\ call'.booking_id \in DOMAIN bookings
           /\ bookings[call'.booking_id].status = "pending"
           /\ Abs(call'.amount - bookings[call'.booking_id].total_price)
                <= Tolerance )
         => /\ ~IsError(result')
            /\ payments'[result'.payment_id].amount = call'.amount
      /\ \A pid \in DOMAIN payments' :
            Abs(payments'[pid].amount
                  - bookings'[payments'[pid].booking_id].total_price)
              <= Tolerance ]_vars

(* C27: a book_seats whose seat list names a seat of the layout that is in *)
(* no confirmed booking more than once, and otherwise only such seats, is  *)
(* accepted; the booking and the result hold the list as it was given,     *)
(* repetitions included, and the total price counts the price of the seat  *)
(* once for each occurrence.                                               *)
C27_ReserveKeepsRepetitions ==
  [][ ( /\ call'.op = "book_seats"
        /\ <<call', result'>> # <<call, result>>
        /\ call'.showtime_id \in DOMAIN showtimes
        /\ call'.user_id # ""
        /\ SeatSet(call'.seats) \subseteq LayoutSeats(call'.showtime_id)
        /\ SeatSet(call'.seats) \cap TakenSeats(call'.showtime_id) = {}
        /\ \E i \in DOMAIN call'.seats, j \in DOMAIN call'.seats :
              i # j /\ call'.seats[i] = call'.seats[j] )
      => /\ ~IsError(result')
         /\ result'.seats = call'.seats
         /\ bookings'[result'.booking_id].seats = call'.seats
         /\ Len(bookings'[result'.booking_id].seats) > Cardinality(SeatSet(call'.seats))
         /\ result'.total_price =
              SumOfPrices(call'.showtime_id, call'.seats, Len(call'.seats))
         /\ \A seat \in SeatSet(call'.seats) :
               result'.total_price >=
                 Cardinality({i \in DOMAIN call'.seats : call'.seats[i] = seat})
                   * CatalogPrice(call'.showtime_id, seat)
         /\ bookings'[result'.booking_id].total_price = result'.total_price ]_vars

\* seat A5 of st002, which has no price of its own, has been booked twice
\* in one request and charged twice the default price
C27_Witness ==
  /\ call.op = "book_seats"
  /\ call.showtime_id = "st002"
  /\ call.seats = <<"A5", "A5">>
  /\ ~IsError(result)
  /\ bookings[result.booking_id].seats = <<"A5", "A5">>
  /\ bookings[result.booking_id].total_price = 2 * DefaultPrice

(* C28: from every ledger and for every request, the handler of            *)
(* AMCMCPServer and the function of fastmcp_server.py return the same      *)
(* payload and leave the same bookings and payments: a step is a step of   *)
(* the one exactly when it is a step of the other, so that the two give    *)
(* the same payloads and ledgers along every sequence of calls.            *)
C28_ImplementationsEquivalent ==
  [][ /\ ( call'.op = "get_seat_map" /\ <<call', result'>> # <<call, result>> )
         => /\ GetSeatMap(call'.showtime_id)
            /\ AMCMCPServerGetSeatMap([showtime_id |-> call'.showtime_id])
      /\ ( call'.op = "book_seats" /\ <<call', result'>> # <<call, result>> )
         => /\ BookSeats(call'.showtime_id, call'.seats, call'.user_id)
            /\ AMCMCPServerBookSeats([showtime_id |-> call'.showtime_id,
                                      seats |-> call'.seats,
                                      user_id |-> call'.user_id])
      /\ ( call'.op = "process_payment" /\ <<call', result'>> # <<call, result>> )
         => /\ ProcessPayment(call'.booking_id, call'.payment_method,
                              call'.amount)
            /\ AMCMCPServerProcessPayment(
                 [booking_id |-> call'.booking_id,
                  payment_method |-> call'.payment_method,
                  amount |-> call'.amount]) ]_vars

\* after bookings and a payment, a request with a seat that is taken and a
\* seat that does not exist has been refused
C28_Witness ==
  /\ call.op = "book_seats"
  /\ call.seats = <<"Z99", "A5">>
  /\ result = [error |-> "Unavailable seats",
               unavailable_seats |->
                 <<[seat_num |-> "Z99", reason |-> "doesn't exist"],
                   [seat_num |-> "A5", reason |-> "already booked"]>>]
  /\ Cardinality(DOMAIN bookings) = 2
  /\ Cardinality(DOMAIN payments) = 1

\* the showtimes of the catalog that have no seat layout
ShowtimesWithoutLayout == DOMAIN showtimes \ DOMAIN seats_data

(* C29: for a showtime of the catalog without a seat layout, get_seat_map  *)
(* succeeds with an empty seat map, and a book_seats with a non-empty seat *)
(* list and user id is refused with every requested seat, in request       *)
(* order, reported as doesn't exist; no booking of such a showtime is ever *)
(* in the ledger.                                                          *)
C29_ShowtimeWithoutLayout ==
  /\ (call.op = "get_seat_map" /\ call.showtime_id \in ShowtimesWithoutLayout)
        => /\ ~IsError(result)
           /\ result.showtime_id = call.showtime_id
           /\ result.seat_map = << >>
  /\ ( /\ call.op = "book_seats"
       /\ call.showtime_id \in ShowtimesWithoutLayout
       /\ call.seats # << >>
       /\ call.user_id # "" )
        => result = [error |-> "Unavailable seats",
                     unavailable_seats |->
                       [k \in 1..Len(call.seats) |->
                          [seat_num |-> call.seats[k],
                           reason |-> "doesn't exist"]]]
  /\ \A id \in DOMAIN bookings :
        bookings[id].showtime_id \notin ShowtimesWithoutLayout

\* two seats that other showtimes have were asked for in the showtime
\* without a layout, while bookings of those seats were in the ledger
C29_Witness ==
  /\ call.op = "book_seats"
  /\ call.showtime_id = "st003"
  /\ call.seats = <<"A5", "A6">>
  /\ call.user_id # ""
  /\ IsError(result)
  /\ result.error = "Unavailable seats"
  /\ Len(result.unavailable_seats) = 2
  /\ \E id \in DOMAIN bookings : bookings[id].status = "confirmed"

====
